---- MODULE Spec2Model ----
(***************************************************************************)
(* The ConfigToolbar module of the editor (configToolbar/index.ts), the    *)
(* move-down block tune and the collaborators they talk to: the Block      *)
(* Sequence (BlockManager), the Read-Only controller, the events           *)
(* dispatcher and the settings panel / toolbox popovers.                   *)
(***************************************************************************)
EXTENDS Integers, Sequences, FiniteSets, TLC

\* ---------------------------------------------------------------- bounds
\* Blocks are 1..MaxBlocks; the sequence holds at most MaxBlocks of them.
MaxBlocks == 2
\* How many times requestIdleCallback may be called in one behaviour.
MaxTasks == 2
\* Longest sequence of saved blocks the block tunes are exercised on.
MaxTuneBlocks == 3

\* ---------------------------------------------------------------- values
\* A block reference that is `undefined` (an omitted argument, an unset field).
Undefined == 0
\* A block reference that is `null`.
Null == 0 - 1

BlockIds == 1..MaxBlocks
\* What a caller can pass as `block`.
BlockArgs == BlockIds \cup {Undefined, Null}

\* Geometry read from the DOM by moveAndOpen: offsetTop and offsetHeight are
\* integers (px); the computed padding-top is a length in tenths of a pixel
\* ("8px" is 80, "8.5px" is 85).
OffsetTops == {0, 7, 120}
OffsetHeights == {0, 40}
PaddingTops == {0, 80, 85, 89}
Geometries == [offsetTop : OffsetTops, offsetHeight : OffsetHeights, paddingTop : PaddingTops]
NoGeometry == [offsetTop |-> 0, offsetHeight |-> 0, paddingTop |-> 0]

\* The page the editor is rendered in by default: blocks of 40px stacked every
\* 120px, their content padded by 8px.
layout(b) == [offsetTop |-> 120 * (b - 1), offsetHeight |-> 40, paddingTop |-> 80]

\* Values of nodes.wrapper.style.top.
EmptyTop == [kind |-> "", px |-> 0]
UnsetTop == [kind |-> "unset", px |-> 0]
PxTop(n) == [kind |-> "px", px |-> n]

\* config.hideConfigToolbar: true, false or not given.
HideOptions == {"true", "false", "undefined"}

VARIABLES
  hideConfigToolbar, \* this.config.hideConfigToolbar
  readOnly,          \* this.Editor.ReadOnly.isEnabled
  isMobile,          \* this.Editor.UI.isMobile / _.isMobileScreen()
  nodes,             \* this.nodes and the presentation markers they carry
  hoveredBlock,      \* this.hoveredBlock
  pending,           \* idle callbacks requested and not yet fired
  scheduled,         \* idle callbacks requested so far
  listeners,         \* entries of this.readOnlyMutableListeners
  hoverSubs,         \* handlers subscribed to BlockHovered
  roots,             \* overlay roots attached to the editor wrapper
  blocks,            \* this.Editor.BlockManager.blocks
  isEmpty,           \* block.isEmpty of every block
  currentBlock,      \* this.Editor.BlockManager.currentBlock
  settingsOpened,    \* the settings panel (Block Tunes) is open
  toolboxOpened,     \* the toolbox is open
  confirming,        \* the settings panel shows the delete entry's confirmation
  targeted,          \* history: the last hover/focus carried a block, and no close() or read-only entry followed
  applied,           \* history: the last moveAndOpen that took effect was not followed by a close, teardown or rebuild that took effect
  last               \* the operation that ran last, with its inputs and outcome

vars == <<hideConfigToolbar, readOnly, isMobile, nodes, hoveredBlock, pending, scheduled,
          listeners, hoverSubs, roots, blocks, isEmpty, currentBlock, settingsOpened,
          toolboxOpened, confirming, targeted, applied, last>>

\* ----------------------------------------------------------------- nodes
\* this.nodes before make() has run: every member is undefined.
NoNodes == [built |-> FALSE, toolbarOpened |-> FALSE, actionsOpened |-> FALSE,
            settingsTogglerHidden |-> FALSE, top |-> EmptyTop]

\* make(): fresh wrapper, content, actions and settingsToggler, no marker set.
make == [NoNodes EXCEPT !.built = TRUE]

\* removeAllNodes() of the base module: every constructed node is torn down.
removeAllNodes(n) == NoNodes

\* get opened()
opened(n) == n.toolbarOpened

\* blockActions.hide() that leaves the marker on.
blockActionsHide_Keeps(n) == n

blockActionsHide(n) == [n EXCEPT !.actionsOpened = FALSE]

blockActionsShow(n) == [n EXCEPT !.actionsOpened = TRUE]

blockTunesTogglerHide(n) == [n EXCEPT !.settingsTogglerHidden = TRUE]

\* blockTunesToggler.show() that leaves the hidden marker on.
blockTunesTogglerShow_Keeps(n) == n

blockTunesTogglerShow(n) == [n EXCEPT !.settingsTogglerHidden = FALSE]

\* reset() that leaves the offset as it is.
reset_Keeps(n) == n

reset(n) == [n EXCEPT !.top = UnsetTop]

\* open() that forgets the open marker.
open_NoMarker(n, withBlockActions) ==
  IF withBlockActions THEN blockActionsShow(n) ELSE blockActionsHide(n)

open(n, withBlockActions) ==
  LET w == [n EXCEPT !.toolbarOpened = TRUE]
  IN  IF withBlockActions THEN blockActionsShow(w) ELSE blockActionsHide(w)

\* ------------------------------------------------------------ positioning
\* The padding rounded to the nearest pixel instead of cut.
parseInt_Rounds(tenths) == (tenths + 5) \div 10

\* parseInt(paddingTop, 10): the integer part of the length.
parseInt(tenths) == tenths \div 10

\* toolbarY, in tenths of a pixel.
toolbarY(mobile, g) ==
  IF mobile THEN (g.offsetTop + g.offsetHeight) * 10
            ELSE (g.offsetTop + parseInt(g.paddingTop)) * 10

\* Math.floor of a value given in tenths.
MathFloor(tenths) == tenths \div 10

\* The block moveAndOpen works on: the argument, or the current block when the
\* argument is undefined (default parameter).
effectiveBlock(arg, current) == IF arg = Undefined THEN current ELSE arg

\* The guard of moveAndOpen without its wrapper check.
moveAndOpenApplies_NoWrapperCheck(n, block) == block \in BlockIds

\* The guard of moveAndOpen: it goes on only with a block and a wrapper.
moveAndOpenApplies(n, block) == block \in BlockIds /\ n.built

\* The toggler rule with the length test off by one.
togglerHiddenRule_AtMostOne(len, empty) == len <= 1 /\ empty

\* The toggler rule of moveAndOpen.
togglerHiddenRule(len, empty) == len = 1 /\ empty

\* moveAndOpen past its guard, on the nodes.
moveAndOpenNodes(n, mobile, g, len, empty) ==
  LET moved == [n EXCEPT !.top = PxTop(MathFloor(toolbarY(mobile, g)))]
      toggled == IF togglerHiddenRule(len, empty)
                   THEN blockTunesTogglerHide(moved)
                   ELSE blockTunesTogglerShow(moved)
  IN  open(toggled, TRUE)

\* close() without its read-only guard.
closeIgnored_Never(readOnlyIsEnabled) == FALSE

\* The guard of close(): it returns at once while read-only is enabled.
closeIgnored(readOnlyIsEnabled) == readOnlyIsEnabled

\* close() past its read-only guard, on built nodes.
closeNodes(n) == reset(blockActionsHide([n EXCEPT !.toolbarOpened = FALSE]))

\* A toolbar that ignores the host's opt-out.
toolbarEnabled_IgnoresOption(hide) == TRUE

\* !(this.config.hideConfigToolbar ?? true)
toolbarEnabled(hide) == hide = "false"

\* A toggleReadOnly that defers a construction whatever the mode it enters.
schedulesConstruction_AnyMode(readOnlyEnabled, hide) == toolbarEnabled(hide)

\* The branch of toggleReadOnly that defers the construction:
\* !readOnlyEnabled && !(this.config.hideConfigToolbar ?? true)
schedulesConstruction(readOnlyEnabled, hide) == ~readOnlyEnabled /\ toolbarEnabled(hide)

\* Bindings without the hover subscription.
subscribesToHover_Never(isMobileScreen) == FALSE

\* enableModuleBindings subscribes to BlockHovered unless the screen is mobile.
subscribesToHover(isMobileScreen) == ~isMobileScreen

\* -------------------------------------------------------- block sequence
Range(s) == {s[i] : i \in DOMAIN s}

\* BlockManager index of a block (0-based), -1 when it is not in the sequence.
getBlockIndex(s, b) ==
  IF b \in Range(s) THEN (CHOOSE i \in DOMAIN s : s[i] = b) - 1 ELSE 0 - 1

getCurrentBlockIndex == getBlockIndex(blocks, currentBlock)

getBlockByIndex(s, i) == IF (i + 1) \in DOMAIN s THEN s[i + 1] ELSE Undefined

\* blocks.move(toIndex, fromIndex): the block at fromIndex goes to toIndex.
moveBlock(s, to, from) ==
  IF (from + 1) \notin DOMAIN s \/ (to + 1) \notin DOMAIN s THEN s
  ELSE LET b == s[from + 1]
           rest == SubSeq(s, 1, from) \o SubSeq(s, from + 2, Len(s))
       IN  SubSeq(rest, 1, to) \o <<b>> \o SubSeq(rest, to + 1, Len(rest))

\* ------------------------------------------------------------------ last
Op(name, arg) == [op |-> name, arg |-> arg, threw |-> FALSE, geometry |-> NoGeometry,
                  calls |-> 0, emitted |-> <<>>, scrolled |-> FALSE]

\* ------------------------------------------------------------------ Init
Init ==
  /\ hideConfigToolbar \in HideOptions
  /\ readOnly = FALSE
  /\ isMobile \in BOOLEAN
  /\ nodes = NoNodes
  /\ hoveredBlock = Undefined
  /\ pending = 0
  /\ scheduled = 0
  /\ listeners = 0
  /\ hoverSubs = 0
  /\ roots = 0
  /\ blocks = <<>>
  /\ isEmpty = [b \in BlockIds |-> TRUE]
  /\ currentBlock = Undefined
  /\ settingsOpened = FALSE
  /\ toolboxOpened = FALSE
  /\ confirming = FALSE
  /\ targeted = FALSE
  /\ applied = FALSE
  /\ last = Op("init", Undefined)

\* --------------------------------------------------------------- actions
\* ReadOnly.toggle(state): the controller records the state and calls the
\* module's toggleReadOnly(state).
ToggleReadOnly(readOnlyEnabled) ==
  /\ schedulesConstruction(readOnlyEnabled, hideConfigToolbar) => scheduled < MaxTasks
  /\ readOnly' = readOnlyEnabled
  /\ IF schedulesConstruction(readOnlyEnabled, hideConfigToolbar)
       THEN /\ pending' = pending + 1
            /\ scheduled' = scheduled + 1
            /\ UNCHANGED <<nodes, listeners, roots, applied>>
       ELSE /\ nodes' = removeAllNodes(nodes)
            /\ roots' = IF nodes.built THEN roots - 1 ELSE roots
            /\ listeners' = 0
            /\ applied' = FALSE
            /\ UNCHANGED <<pending, scheduled>>
  /\ targeted' = IF readOnlyEnabled THEN FALSE ELSE targeted
  /\ last' = Op("toggleReadOnly", IF readOnlyEnabled THEN 1 ELSE 0)
  /\ UNCHANGED <<confirming, hideConfigToolbar, isMobile, hoveredBlock, hoverSubs, blocks, isEmpty,
                 currentBlock, settingsOpened, toolboxOpened>>

\* The idle callback fires: drawUI() and enableModuleBindings().
IdleCallback ==
  /\ pending > 0
  /\ pending' = pending - 1
  /\ nodes' = make
  /\ roots' = roots + 1
  /\ listeners' = listeners + 1
  /\ hoverSubs' = IF subscribesToHover(isMobile) THEN hoverSubs + 1 ELSE hoverSubs
  /\ applied' = FALSE
  /\ last' = Op("idleCallback", Undefined)
  /\ UNCHANGED <<confirming, hideConfigToolbar, readOnly, isMobile, hoveredBlock, scheduled, blocks,
                 isEmpty, currentBlock, settingsOpened, toolboxOpened, targeted>>

\* moveAndOpen(arg), called `calls` times in a row with the geometry g in the DOM.
MoveAndOpenCalls(name, arg, g, calls) ==
  LET block == effectiveBlock(arg, currentBlock)
      goes == calls > 0 /\ moveAndOpenApplies(nodes, block)
  IN  /\ IF goes
           THEN /\ hoveredBlock' = block
                /\ nodes' = moveAndOpenNodes(nodes, isMobile, g, Len(blocks), isEmpty[block])
                /\ applied' = TRUE
           ELSE UNCHANGED <<hoveredBlock, nodes, applied>>
      /\ targeted' = (arg \in BlockIds)
      /\ last' = [Op(name, arg) EXCEPT !.calls = calls,
                                       !.geometry = IF goes THEN g ELSE NoGeometry]
      /\ UNCHANGED <<confirming, hideConfigToolbar, readOnly, isMobile, pending, scheduled, listeners,
                     hoverSubs, roots, blocks, isEmpty, currentBlock, settingsOpened,
                     toolboxOpened>>

\* Ways the geometry of a block can be unavailable to moveAndOpen:
\* "noContent", block.pluginsContent is not an element and getComputedStyle
\* throws a TypeError; "detached", the holder is out of the document, its
\* offsets are 0 and its computed padding-top is the empty string.
GeometryFailures == {"noContent", "detached"}

\* this.hoveredBlock = block, the first statement past the guard.
hoveredAfterMove(hovered, block) == block

\* The statements of moveAndOpen after the geometry reads, when the geometry
\* is unavailable. A TypeError ends the call there. On a detached holder
\* parseInt yields NaN: on desktop "NaNpx" is not a length and style.top keeps
\* its value, on mobile the offset is 0 + 0; the toggler rule and open() run.
moveAndOpenNodesWithoutGeometry(n, mobile, failure, len, empty) ==
  IF failure = "noContent" THEN n
  ELSE LET moved == IF mobile THEN [n EXCEPT !.top = PxTop(0)] ELSE n
           toggled == IF togglerHiddenRule(len, empty)
                        THEN blockTunesTogglerHide(moved)
                        ELSE blockTunesTogglerShow(moved)
       IN  open(toggled, TRUE)

\* moveAndOpen(arg) past its guard, on a block whose geometry is unavailable.
MoveAndOpenWithoutGeometry(arg, failure) ==
  LET block == effectiveBlock(arg, currentBlock)
  IN  /\ moveAndOpenApplies(nodes, block)
      /\ hoveredBlock' = hoveredAfterMove(hoveredBlock, block)
      /\ nodes' = moveAndOpenNodesWithoutGeometry(nodes, isMobile, failure, Len(blocks),
                                                   isEmpty[block])
      /\ applied' = IF failure = "noContent" THEN applied ELSE TRUE
      /\ targeted' = (arg \in BlockIds)
      /\ last' = [Op("moveAndOpenWithoutGeometry", arg)
                    EXCEPT !.calls = 1, !.threw = (failure = "noContent")]
      /\ UNCHANGED <<confirming, hideConfigToolbar, readOnly, isMobile, pending, scheduled,
                     listeners, hoverSubs, roots, blocks, isEmpty, currentBlock,
                     settingsOpened, toolboxOpened>>

\* The geometry the DOM holds for the block moveAndOpen(arg) works on.
geometryOf(arg) ==
  LET block == effectiveBlock(arg, currentBlock)
  IN  IF block \in BlockIds THEN layout(block) ELSE NoGeometry

\* A direct call of moveAndOpen (a focus change, or a caller passing nothing).
MoveAndOpen(arg) == MoveAndOpenCalls("moveAndOpen", arg, geometryOf(arg), 1)

\* The dispatcher emits BlockHovered: every subscribed handler calls moveAndOpen(data.block).
BlockHovered(arg) ==
  /\ arg \in Range(blocks) \cup {Undefined, Null}
  /\ MoveAndOpenCalls("blockHovered", arg, geometryOf(arg), hoverSubs)

\* moveAndOpen on a page laid out in any other way.
MoveAndOpenAt(arg, g) == MoveAndOpenCalls("moveAndOpen", arg, g, 1)

\* close()
Close ==
  /\ IF closeIgnored(readOnly)
       THEN /\ last' = Op("close", Undefined)
            /\ UNCHANGED <<nodes, applied>>
       ELSE IF ~nodes.built
         THEN /\ last' = [Op("close", Undefined) EXCEPT !.threw = TRUE]
              /\ UNCHANGED <<nodes, applied>>
         ELSE /\ nodes' = closeNodes(nodes)
              /\ applied' = FALSE
              /\ last' = Op("close", Undefined)
  /\ targeted' = FALSE
  /\ UNCHANGED <<confirming, hideConfigToolbar, readOnly, isMobile, hoveredBlock, pending, scheduled,
                 listeners, hoverSubs, roots, blocks, isEmpty, currentBlock, settingsOpened,
                 toolboxOpened>>

\* The settings panel, subscribed to SettingsClicked, renders the tunes of the
\* block it is given: it is open afterwards.
onSettingsClicked(isOpened) == TRUE

\* api.toolbar.toggleBlockSettings(openingState)
toggleBlockSettings(isOpened, openingState) == openingState

\* An emission whose payload is the current block, not the block given.
settingsClickedEvents_Current(block, current) ==
  <<[block |-> current, currentBlock |-> current]>>

\* What emitBlockSettingsClicked(block) hands to the dispatcher: one
\* SettingsClicked event with payload { block }; `current` records the current
\* block of the Block Sequence at that moment.
settingsClickedEvents(block, current) ==
  <<[block |-> block, currentBlock |-> current]>>

\* emitBlockSettingsClicked(block): the event is delivered at once to the
\* settings panel, which renders fresh entries.
emitBlockSettingsClicked(name, block, current) ==
  /\ last' = [Op(name, block) EXCEPT !.emitted = settingsClickedEvents(block, current)]
  /\ settingsOpened' = onSettingsClicked(settingsOpened)
  /\ confirming' = FALSE

\* activate(block)
Activate(block) ==
  /\ emitBlockSettingsClicked("activate", block, currentBlock)
  /\ UNCHANGED <<hideConfigToolbar, readOnly, isMobile, nodes, hoveredBlock, pending,
                 scheduled, listeners, hoverSubs, roots, blocks, isEmpty, currentBlock,
                 toolboxOpened, targeted, applied>>

\* A toggler click that leaves the current block as it was.
currentAfterToggle_Keeps(current, hovered) == current

\* The current block after settingsToggleClicked's assignment
\* (BlockManager.currentBlock = this.hoveredBlock).
currentAfterToggle(current, hovered) == hovered

\* mousedown on the settings toggler: settingsToggleClicked()
SettingsTogglerMousedown ==
  /\ nodes.built /\ listeners > 0
  /\ currentBlock' = currentAfterToggle(currentBlock, hoveredBlock)
  /\ emitBlockSettingsClicked("settingsToggleClicked", hoveredBlock, currentBlock')
  /\ UNCHANGED <<hideConfigToolbar, readOnly, isMobile, nodes, hoveredBlock, pending,
                 scheduled, listeners, hoverSubs, roots, blocks, isEmpty, toolboxOpened,
                 targeted, applied>>

\* A handler without the boundary test.
isLast_Never(nextBlock) == FALSE

\* handleClick's boundary test: if (!nextBlock) throw
isLast(nextBlock) == nextBlock = Undefined

\* A handler that moves the block to its own index.
moveTarget_SameIndex(currentBlockIndex) == currentBlockIndex

\* The index handleClick passes to api.blocks.move
moveTarget(currentBlockIndex) == currentBlockIndex + 1

\* MoveDownTune.handleClick(), activated from the open settings panel.
MoveDown ==
  LET currentBlockIndex == getCurrentBlockIndex
      nextBlock == getBlockByIndex(blocks, currentBlockIndex + 1)
  IN  /\ settingsOpened
      /\ IF isLast(nextBlock)
           THEN /\ last' = [Op("moveDown", Undefined) EXCEPT !.threw = TRUE]
                /\ UNCHANGED <<blocks, settingsOpened, confirming>>
           ELSE /\ blocks' = moveBlock(blocks, moveTarget(currentBlockIndex), currentBlockIndex)
                /\ settingsOpened' = toggleBlockSettings(settingsOpened, TRUE)
                /\ confirming' = FALSE
                /\ last' = [Op("moveDown", Undefined) EXCEPT !.scrolled = TRUE]
      /\ UNCHANGED <<hideConfigToolbar, readOnly, isMobile, nodes, hoveredBlock, pending,
                     scheduled, listeners, hoverSubs, roots, isEmpty, currentBlock,
                     toolboxOpened, targeted, applied>>

\* blocks.delete(index): the block at the index leaves the sequence.
deleteBlock(s, index) ==
  IF (index + 1) \notin DOMAIN s THEN s
  ELSE SubSeq(s, 1, index) \o SubSeq(s, index + 2, Len(s))

\* A delete entry that runs the handler on its first activation.
DeleteTune_render_Direct ==
  [name |-> "delete", onActivate |-> "handleClick", confirmation |-> "none"]

\* DeleteTune.render(): the entry has no onActivate of its own, only a
\* confirmation whose onActivate is handleClick.
DeleteTune_render ==
  [name |-> "delete", onActivate |-> "none", confirmation |-> "handleClick"]

\* DeleteTune.handleClick(): api.blocks.delete() on the current block.
DeleteTune_handleClick(s, currentBlockIndex) == deleteBlock(s, currentBlockIndex)

\* The delete entry of the open settings panel is activated. render() reads
\* the current block's editable flag, so the entry exists only with a current
\* block. An entry with a confirmation is armed by its first activation and
\* runs the confirmation's onActivate on the next one; the Block Sequence
\* picks the current block that follows the deletion.
DeleteClick ==
  LET entry == DeleteTune_render
      arms == entry.confirmation # "none" /\ ~confirming
  IN  /\ settingsOpened
      /\ currentBlock \in Range(blocks)
      /\ IF arms
           THEN /\ confirming' = TRUE
                /\ UNCHANGED <<blocks, currentBlock>>
           ELSE /\ confirming' = FALSE
                /\ blocks' = DeleteTune_handleClick(blocks, getCurrentBlockIndex)
                /\ currentBlock' \in Range(blocks') \cup {Undefined}
      /\ last' = Op("deleteClick", currentBlock)
      /\ UNCHANGED <<hideConfigToolbar, readOnly, isMobile, nodes, hoveredBlock, pending,
                     scheduled, listeners, hoverSubs, roots, isEmpty, settingsOpened,
                     toolboxOpened, targeted, applied>>

\* The Block Sequence inserts a new block at its end. Blocks are numbered as
\* they are made: the new block takes the first number not in the sequence.
Insert(b) ==
  /\ b \notin Range(blocks)
  /\ \A other \in BlockIds \ Range(blocks) : b <= other
  /\ Len(blocks) < MaxBlocks
  /\ blocks' = Append(blocks, b)
  /\ last' = Op("insert", Undefined)
  /\ UNCHANGED <<confirming, hideConfigToolbar, readOnly, isMobile, nodes, hoveredBlock, pending,
                 scheduled, listeners, hoverSubs, roots, isEmpty, currentBlock,
                 settingsOpened, toolboxOpened, targeted, applied>>

\* The user types into, or clears, a block.
Edit(b) ==
  /\ isEmpty' = [isEmpty EXCEPT ![b] = ~isEmpty[b]]
  /\ last' = Op("edit", Undefined)
  /\ UNCHANGED <<confirming, hideConfigToolbar, readOnly, isMobile, nodes, hoveredBlock, pending,
                 scheduled, listeners, hoverSubs, roots, blocks, currentBlock,
                 settingsOpened, toolboxOpened, targeted, applied>>

\* The user clicks a block: the Block Sequence makes it the current block.
SetCurrent(b) ==
  /\ b \in Range(blocks)
  /\ b # currentBlock
  /\ currentBlock' = b
  /\ last' = Op("setCurrent", Undefined)
  /\ UNCHANGED <<confirming, hideConfigToolbar, readOnly, isMobile, nodes, hoveredBlock, pending,
                 scheduled, listeners, hoverSubs, roots, blocks, isEmpty,
                 settingsOpened, toolboxOpened, targeted, applied>>

\* The toolbox opens or closes; the settings panel closes.
OpenToolbox ==
  /\ ~toolboxOpened
  /\ toolboxOpened' = TRUE
  /\ last' = Op("openToolbox", Undefined)
  /\ UNCHANGED <<confirming, hideConfigToolbar, readOnly, isMobile, nodes, hoveredBlock, pending,
                 scheduled, listeners, hoverSubs, roots, blocks, isEmpty, currentBlock,
                 settingsOpened, targeted, applied>>

CloseToolbox ==
  /\ toolboxOpened
  /\ toolboxOpened' = FALSE
  /\ last' = Op("closeToolbox", Undefined)
  /\ UNCHANGED <<confirming, hideConfigToolbar, readOnly, isMobile, nodes, hoveredBlock, pending,
                 scheduled, listeners, hoverSubs, roots, blocks, isEmpty, currentBlock,
                 settingsOpened, targeted, applied>>

CloseSettings ==
  /\ settingsOpened
  /\ settingsOpened' = FALSE
  /\ confirming' = FALSE
  /\ last' = Op("closeSettings", Undefined)
  /\ UNCHANGED <<hideConfigToolbar, readOnly, isMobile, nodes, hoveredBlock, pending,
                 scheduled, listeners, hoverSubs, roots, blocks, isEmpty, currentBlock,
                 toolboxOpened, targeted, applied>>

\* The viewport is resized across the mobile breakpoint.
Resize ==
  /\ isMobile' = ~isMobile
  /\ last' = Op("resize", Undefined)
  /\ UNCHANGED <<confirming, hideConfigToolbar, readOnly, nodes, hoveredBlock, pending, scheduled,
                 listeners, hoverSubs, roots, blocks, isEmpty, currentBlock,
                 settingsOpened, toolboxOpened, targeted, applied>>

\* The toolbar engine over its life: read-only toggles, the deferred
\* construction, hovers and focus changes, close, and the settings requests.
Next ==
  \/ \E readOnlyEnabled \in BOOLEAN : ToggleReadOnly(readOnlyEnabled)
  \/ IdleCallback
  \/ \E arg \in BlockArgs : MoveAndOpen(arg)
  \/ \E arg \in BlockArgs : BlockHovered(arg)
  \/ Close
  \/ \E b \in BlockIds : Activate(b)
  \/ SettingsTogglerMousedown
  \/ \E b \in BlockIds : Insert(b)
  \/ \E b \in BlockIds : SetCurrent(b)

Spec == Init /\ [][Next]_vars


\* The editor configured to show the toolbar.
InitShown == Init /\ hideConfigToolbar = "false"

\* The settings toggler while the sequence grows and blocks are typed into or cleared.
NextSequence ==
  \/ ToggleReadOnly(FALSE)
  \/ IdleCallback
  \/ \E arg \in BlockArgs : MoveAndOpen(arg)
  \/ \E arg \in BlockArgs : BlockHovered(arg)
  \/ Close
  \/ \E b \in BlockIds : Insert(b)
  \/ \E b \in BlockIds : Edit(b)
  \/ \E b \in BlockIds : SetCurrent(b)

SpecSequence == InitShown /\ [][NextSequence]_vars

\* Positioning: moveAndOpen over every geometry of the page, on both viewports.

NextPositioning ==
  \/ \E readOnlyEnabled \in BOOLEAN : ToggleReadOnly(readOnlyEnabled)
  \/ IdleCallback
  \/ \E arg \in BlockArgs, g \in Geometries : MoveAndOpenAt(arg, g)
  \/ Close
  \/ Resize

SpecPositioning == InitShown /\ [][NextPositioning]_vars

\* Popovers: the settings panel and the toolbox, and what opens them.
NextPopovers ==
  \/ ToggleReadOnly(FALSE)
  \/ IdleCallback
  \/ \E arg \in BlockIds : BlockHovered(arg)
  \/ \E b \in BlockIds : Activate(b)
  \/ SettingsTogglerMousedown
  \/ MoveDown
  \/ \E b \in BlockIds : Insert(b)
  \/ \E b \in BlockIds : SetCurrent(b)
  \/ OpenToolbox
  \/ CloseToolbox
  \/ CloseSettings

SpecPopovers == InitShown /\ [][NextPopovers]_vars

\* The read-only cycle: toggles, the idle callback and hovers. The idle
\* callback is requested with { timeout: 2000 }, so a pending one always runs.
NextRebuild ==
  \/ \E readOnlyEnabled \in BOOLEAN : ToggleReadOnly(readOnlyEnabled)
  \/ IdleCallback
  \/ \E arg \in BlockIds : BlockHovered(arg)
  \/ \E b \in BlockIds : Insert(b)

SpecRebuild == InitShown /\ [][NextRebuild]_vars /\ WF_vars(IdleCallback)

\* Hover and focus on blocks whose geometry may be unavailable.
NextGeometry ==
  \/ ToggleReadOnly(FALSE)
  \/ IdleCallback
  \/ \E arg \in BlockArgs : MoveAndOpen(arg)
  \/ \E arg \in BlockArgs, failure \in GeometryFailures :
        MoveAndOpenWithoutGeometry(arg, failure)
  \/ Close
  \/ \E b \in BlockIds : Insert(b)
  \/ \E b \in BlockIds : SetCurrent(b)

SpecGeometry == InitShown /\ [][NextGeometry]_vars

\* The hovered-block reference across closes and deletions, on an editor
\* constructed with saved blocks; no block is inserted, so a block that left
\* the sequence never comes back.
SavedSequences == {[i \in 1..n |-> i] : n \in 0..MaxBlocks}

InitSaved ==
  /\ hideConfigToolbar = "false"
  /\ readOnly = FALSE
  /\ isMobile \in BOOLEAN
  /\ nodes = NoNodes
  /\ hoveredBlock = Undefined
  /\ pending = 0
  /\ scheduled = 0
  /\ listeners = 0
  /\ hoverSubs = 0
  /\ roots = 0
  /\ blocks \in SavedSequences
  /\ isEmpty = [b \in BlockIds |-> TRUE]
  /\ currentBlock = Undefined
  /\ settingsOpened = FALSE
  /\ toolboxOpened = FALSE
  /\ confirming = FALSE
  /\ targeted = FALSE
  /\ applied = FALSE
  /\ last = Op("init", Undefined)

NextInvalidation ==
  \/ ToggleReadOnly(FALSE)
  \/ IdleCallback
  \/ \E arg \in BlockIds : MoveAndOpen(arg)
  \/ \E arg \in BlockIds : BlockHovered(arg)
  \/ Close
  \/ SettingsTogglerMousedown
  \/ DeleteClick
  \/ CloseSettings

SpecInvalidation == InitSaved /\ [][NextInvalidation]_vars

\* The block tunes, on an editor constructed with saved blocks.
TuneBlockIds == 1..MaxTuneBlocks

TuneSequences ==
  {s \in UNION {[1..n -> TuneBlockIds] : n \in 0..MaxTuneBlocks} :
     \A i, j \in DOMAIN s : i # j => s[i] # s[j]}

InitTunes ==
  /\ hideConfigToolbar = "false"
  /\ readOnly = FALSE
  /\ isMobile = FALSE
  /\ nodes = NoNodes
  /\ hoveredBlock = Undefined
  /\ pending = 0
  /\ scheduled = 0
  /\ listeners = 0
  /\ hoverSubs = 0
  /\ roots = 0
  /\ blocks \in TuneSequences
  /\ isEmpty = [b \in BlockIds |-> TRUE]
  /\ currentBlock \in Range(blocks) \cup {Undefined}
  /\ settingsOpened = FALSE
  /\ toolboxOpened = FALSE
  /\ confirming = FALSE
  /\ targeted = FALSE
  /\ applied = FALSE
  /\ last = Op("init", Undefined)

NextTunes ==
  \/ \E b \in Range(blocks) : Activate(b)
  \/ \E b \in Range(blocks) : SetCurrent(b)
  \/ MoveDown
  \/ DeleteClick
  \/ CloseSettings

SpecTunes == InitTunes /\ [][NextTunes]_vars

\* ================================================================ claims
\* A call of moveAndOpen (direct, or from the BlockHovered handlers) ran last.
MoveAndOpenRan == last.op \in {"moveAndOpen", "blockHovered"} /\ last.calls > 0

\* That call had a block to work on (the one passed, or the current block when
\* nothing was passed) and a built overlay.
MoveAndOpenTookEffect ==
  /\ MoveAndOpenRan'
  /\ nodes.built
  /\ \/ last'.arg \in BlockIds
     \/ last'.arg = Undefined /\ currentBlock \in BlockIds

\* C1: in every reachable state, a toolbar that is not opened does not show
\* its actions zone.
C1_ClosedHidesActions == ~opened(nodes) => ~nodes.actionsOpened

\* C1 witness: the toolbar was opened with its actions by a hover and then closed.
C1_Witness ==
  /\ last.op = "close" /\ ~last.threw /\ ~readOnly
  /\ hoveredBlock \in BlockIds
  /\ nodes.built /\ ~opened(nodes) /\ ~nodes.actionsOpened

\* C2: at most one of the settings panel and the toolbox is open.
C2_AtMostOnePopover == ~(settingsOpened /\ toolboxOpened)

\* C3 as stated: the overlay is open iff the most recent hover/focus carried a
\* block and no close() call and no read-only entry followed it.
C3_OpenIffLastTargetPresent == opened(nodes) <=> targeted

\* C3 amended: the overlay is open iff a moveAndOpen has taken effect (it had
\* a block to work on and the overlay was built) and no close() that took
\* effect, no teardown and no rebuild of the overlay followed it.
C3_OpenIffMoveApplied == opened(nodes) <=> applied

\* C3 witness: the overlay stays open after a hover that carried no block.
C3_Witness ==
  /\ last.op = "blockHovered" /\ last.calls > 0 /\ last.arg = Null
  /\ opened(nodes) /\ applied /\ ~targeted

\* C4: right after moveAndOpen(block) with a block passed and the overlay
\* built, the settings toggler is hidden iff the sequence has exactly one block
\* and the passed block is empty.
C4_TogglerAfterMoveAndOpen ==
  (MoveAndOpenRan /\ last.arg \in BlockIds /\ nodes.built)
    => (nodes.settingsTogglerHidden <=> (Len(blocks) = 1 /\ isEmpty[last.arg]))

\* C4 witness: an empty block passed while the sequence is empty: the toggler shows.
C4_Witness ==
  /\ MoveAndOpenRan /\ last.arg \in BlockIds /\ nodes.built
  /\ Len(blocks) = 0 /\ isEmpty[last.arg] /\ ~nodes.settingsTogglerHidden

\* C5 as stated: whenever the overlay is built, the toggler is hidden exactly
\* when the sequence has exactly one block and that block is empty.
C5_TogglerTracksSequence ==
  nodes.built => (nodes.settingsTogglerHidden <=> (Len(blocks) = 1 /\ isEmpty[blocks[1]]))

\* C5 amended: the toggler is recomputed by moveAndOpen alone. Right after a
\* moveAndOpen that took effect it is hidden exactly when the sequence has
\* exactly one block and the hovered block is empty (so it is visible once B is
\* appended, even if A is still empty); inserting or editing a block leaves it
\* as it was.
C5_TogglerRecomputedOnMove ==
  [][ /\ MoveAndOpenTookEffect
          => (nodes'.settingsTogglerHidden <=> (Len(blocks') = 1 /\ isEmpty'[hoveredBlock']))
      /\ (last'.op \in {"insert", "edit"})
          => (nodes'.settingsTogglerHidden = nodes.settingsTogglerHidden) ]_vars

\* C5 witness: A is alone, empty and hovered, B is appended, A is hovered again:
\* the toggler is visible.
C5_Witness ==
  /\ MoveAndOpenRan /\ last.arg = 1 /\ nodes.built
  /\ blocks = <<1, 2>> /\ isEmpty[1] /\ ~nodes.settingsTogglerHidden

\* C6: after close() with read-only disabled and the overlay built, the
\* toolbar is Closed: no open marker, actions hidden, offset 'unset'.
C6_CloseResets ==
  (last.op = "close" /\ ~readOnly /\ nodes.built)
    => (~opened(nodes) /\ ~nodes.actionsOpened /\ nodes.top = UnsetTop)

\* C6 witness: close() ran on a built overlay that a hover had positioned.
C6_Witness ==
  /\ last.op = "close" /\ ~last.threw /\ ~readOnly /\ nodes.built
  /\ hoveredBlock \in BlockIds /\ nodes.top = UnsetTop

\* C7: close() while read-only is enabled changes nothing and raises nothing.
C7_CloseInReadOnlyIsNoOp ==
  [][ (last'.op = "close" /\ readOnly)
        => (UNCHANGED <<nodes, hoveredBlock>> /\ ~last'.threw) ]_vars

\* C7 witness: close() ran in read-only on an overlay that is open.
C7_Witness == last.op = "close" /\ readOnly /\ nodes.built /\ opened(nodes)

\* C8 as stated: moveAndOpen(block) changes nothing when no block is passed or
\* the overlay is not built.
C8_NoOpWithoutArgument ==
  [][ (MoveAndOpenRan' /\ (last'.arg \notin BlockIds \/ ~nodes.built))
        => UNCHANGED <<hoveredBlock, nodes>> ]_vars

\* C8 amended: moveAndOpen(block) changes nothing when it has no block to work
\* on (null is passed, or nothing is passed and the sequence has no current
\* block) or the overlay is not built.
C8_NoOpWithoutBlock ==
  [][ (MoveAndOpenRan' /\ ~MoveAndOpenTookEffect)
        => UNCHANGED <<hoveredBlock, nodes>> ]_vars

\* C8 witness: nothing passed, no current block, on an overlay that is open.
C8_Witness ==
  /\ last.op = "moveAndOpen" /\ last.arg = Undefined /\ currentBlock = Undefined
  /\ nodes.built /\ opened(nodes)

\* C9: before the first construction, with read-only disabled, close() and
\* moveAndOpen(block) raise no error.
C9_SafeBeforeConstruction ==
  (last.op \in {"close", "moveAndOpen"} /\ ~readOnly /\ scheduled = pending /\ ~nodes.built)
    => ~last.threw

\* floor(px + tenths / 10)
FloorOfSum(px, tenths) == (px * 10 + tenths) \div 10

\* C10: after moveAndOpen(block) with a block passed and the overlay built,
\* the offset applied is floor(top + height) on mobile and
\* floor(top + padding-top) on desktop.
C10_OffsetApplied ==
  (last.op = "moveAndOpen" /\ last.arg \in BlockIds /\ nodes.built)
    => nodes.top = PxTop(IF isMobile
                           THEN FloorOfSum(last.geometry.offsetTop, last.geometry.offsetHeight * 10)
                           ELSE FloorOfSum(last.geometry.offsetTop, last.geometry.paddingTop))

\* C10 witness: desktop, top 120 and padding-top 8.5px give 128.
C10_Witness ==
  /\ last.op = "moveAndOpen" /\ last.arg \in BlockIds /\ nodes.built /\ ~isMobile
  /\ last.geometry.offsetTop = 120 /\ last.geometry.paddingTop = 85
  /\ nodes.top = PxTop(128)

\* C11: a settings-toggler click sets the current block to the hovered block
\* first and then emits exactly one SettingsClicked event whose payload is the
\* hovered block; after the click the current block is the hovered block,
\* whatever it was before.
C11_TogglerClickSyncsCurrent ==
  last.op = "settingsToggleClicked"
    => /\ currentBlock = hoveredBlock
       /\ Len(last.emitted) = 1
       /\ last.emitted[1].block = hoveredBlock
       /\ last.emitted[1].currentBlock = hoveredBlock

\* C11 witness: a click on the toggler of an open toolbar hovering a block of
\* a two-block sequence.
C11_Witness ==
  /\ last.op = "settingsToggleClicked" /\ opened(nodes)
  /\ hoveredBlock \in BlockIds /\ currentBlock = hoveredBlock /\ Len(blocks) = 2

\* C12: activate(block) emits exactly one SettingsClicked event carrying the
\* given block and leaves the open marker, the actions zone, the toggler, the
\* offset, the hovered block and the current block as they were.
C12_ActivateOnlyEmits ==
  [][last'.op = "activate"
       => /\ Len(last'.emitted) = 1
          /\ last'.emitted[1].block = last'.arg
          /\ UNCHANGED <<nodes, hoveredBlock, currentBlock>>]_vars

\* C12 witness: activate on an open toolbar, for a block that is neither the
\* hovered nor the current one.
C12_Witness ==
  /\ last.op = "activate" /\ opened(nodes) /\ nodes.actionsOpened
  /\ last.arg \in BlockIds /\ last.arg # currentBlock /\ last.arg # hoveredBlock

\* C13: after toggleReadOnly(true), from any toolbar state, the toolbar is
\* closed: neither the open marker nor the actions zone is shown.
C13_ReadOnlyEntryCloses ==
  (last.op = "toggleReadOnly" /\ last.arg = 1)
    => ~opened(nodes) /\ ~nodes.actionsOpened

\* C13 witness: read-only entered on a toolbar that had been moved to a block.
C13_Witness ==
  /\ last.op = "toggleReadOnly" /\ last.arg = 1 /\ readOnly
  /\ hoveredBlock \in BlockIds /\ scheduled = 1 /\ pending = 0

\* C14: while read-only stays enabled, a BlockHovered event or a mousedown on
\* the settings toggler changes nothing of the toolbar, of the hovered block
\* or of the current block, and emits nothing.
C14_ReadOnlyUnbindsHandlers ==
  [][(readOnly /\ readOnly' /\ last'.op \in {"blockHovered", "settingsToggleClicked"})
       => /\ UNCHANGED <<nodes, hoveredBlock, currentBlock>>
          /\ last'.emitted = <<>>]_vars

\* C15: the overlay is never built, and no handler of it bound, while
\* read-only is enabled.
C15_NoConstructionInReadOnly == readOnly => (~nodes.built /\ listeners = 0)

\* The deferred construction is owed: read-only was just disabled on a
\* toolbar the host has not opted out.
ConstructionOwed ==
  last.op = "toggleReadOnly" /\ last.arg = 0 /\ hideConfigToolbar = "false"

\* The overlay is built and its handlers are bound.
Rebuilt == nodes.built /\ listeners > 0 /\ (~isMobile => hoverSubs > 0)

\* C16: after toggleReadOnly(false) the overlay is eventually built with its
\* handlers bound, and a BlockHovered event for a block then reaching a built
\* overlay on a desktop viewport moves the toolbar to that block and opens it.
C16_EventuallyRebuilt ==
  /\ ConstructionOwed ~> Rebuilt
  /\ [][(Rebuilt /\ ~isMobile /\ last'.op = "blockHovered" /\ last'.arg \in BlockIds)
          => (opened(nodes') /\ hoveredBlock' = last'.arg)]_vars

\* C16 witness: two constructions with one teardown in between, read-only
\* disabled again, and a hover that opened the rebuilt toolbar on desktop.
C16_Witness ==
  /\ ~readOnly /\ ~isMobile /\ scheduled = 2 /\ pending = 0 /\ roots = 1
  /\ nodes.built /\ last.op = "blockHovered" /\ opened(nodes)
  /\ hoveredBlock = last.arg

\* C17: with hideConfigToolbar set to true no construction is ever scheduled,
\* the overlay is never built and no handler is bound, whatever read-only
\* toggles happen.
C17_OptedOutNeverBuilt ==
  hideConfigToolbar = "true"
    => /\ scheduled = 0 /\ pending = 0
       /\ ~nodes.built /\ roots = 0
       /\ listeners = 0 /\ hoverSubs = 0

\* C17 witness: toggleReadOnly(false) has run on an opted-out toolbar.
C17_Witness ==
  /\ hideConfigToolbar = "true" /\ ~readOnly
  /\ last.op = "toggleReadOnly" /\ last.arg = 0


C19_MoveDownSwapsNeighbours ==
  [][(last'.op = "moveDown" /\ currentBlock \in Range(blocks)
        /\ blocks[Len(blocks)] # currentBlock)
       => LET i == CHOOSE k \in DOMAIN blocks : blocks[k] = currentBlock
          IN  /\ Len(blocks') = Len(blocks)
              /\ blocks'[i] = blocks[i + 1]
              /\ blocks'[i + 1] = blocks[i]
              /\ \A k \in DOMAIN blocks \ {i, i + 1} : blocks'[k] = blocks[k]]_vars

\* C19 witness: block 1 went from the first to the second position of three,
\* the third block stayed.
C19_Witness ==
  /\ last.op = "moveDown" /\ ~last.threw /\ last.scrolled
  /\ blocks = <<2, 1, 3>> /\ currentBlock = 1

\* C20: the first activation of the delete entry leaves the current block in
\* the sequence and the length as it was; the second, confirming, activation
\* removes that block and nothing else, so the length decreases by one.
C20_DeleteNeedsTwoActivations ==
  [][last'.op = "deleteClick"
       => IF ~confirming
            THEN /\ blocks' = blocks
                 /\ currentBlock \in Range(blocks')
            ELSE /\ Len(blocks') = Len(blocks) - 1
                 /\ currentBlock \notin Range(blocks')
                 /\ Range(blocks') = Range(blocks) \ {currentBlock}]_vars

\* C20 witness: the confirming activation has removed the block from a
\* sequence of three.
C20_Witness ==
  /\ last.op = "deleteClick" /\ ~confirming
  /\ last.arg \in TuneBlockIds /\ last.arg \notin Range(blocks) /\ Len(blocks) = 2


\* C21: a moveAndOpen(block) whose positioning fails because the geometry of
\* the block is unavailable changes nothing: the hovered block, the offset, the
\* toggler, the open marker and the actions zone are as before the call.
C21_FailedMoveChangesNothing ==
  [][last'.op = "moveAndOpenWithoutGeometry"
       => UNCHANGED <<hoveredBlock, nodes>>]_vars


\* C22: the hovered-block reference is none after every close that takes
\* effect, it never refers to a block that has left the sequence, and a click
\* on the settings toggler never makes such a block the current block.
C22_HoveredBlockInvalidated ==
  /\ (last.op = "close" /\ ~readOnly /\ ~last.threw) => hoveredBlock = Undefined
  /\ hoveredBlock \in Range(blocks) \cup {Undefined}
  /\ last.op = "settingsToggleClicked" => currentBlock \in Range(blocks) \cup {Undefined}


\* C23: at most one deferred construction task is pending at any time.
C23_AtMostOnePendingTask == pending <= 1

\* C24: after any read-only cycles and fired construction tasks, a
\* BlockHovered event reaching a built overlay on desktop invokes moveAndOpen
\* exactly once, and exactly one overlay root is attached to the editor.
C24_NoAccumulation ==
  (last.op = "blockHovered" /\ nodes.built /\ ~isMobile)
    => (last.calls = 1 /\ roots = 1)


====
